---- MODULE Spec2Model ----
(***************************************************************************)
(* Model of src/core/index.rs: the Index handle (a catalog `metas` and a   *)
(* `directory`, each behind its own RwLock), the Segment addressing, and   *)
(* the persistence protocol of the catalog file meta.json.                 *)
(*                                                                         *)
(* The Directory implementations (core::directory) and the JSON codec are  *)
(* not part of index.rs; they are modelled from the storage contract of    *)
(* the specification (sections 4.2 and 6).                                 *)
(***************************************************************************)
EXTENDS Integers, Sequences, FiniteSets, TLC

\* ------------------------------------------------------------- bounds

\* Number of threads, each owning a clone of the Index handle.
NThreads == 2

\* Number of segment identities SegmentId::new() can hand out in one run.
NSegs == 2

\* Number of distinct non-empty schemas an Index can be created with.
NSchemas == 1

\* Number of times the process can be killed and the index reopened.
MaxCrashes == 1

\* Number of segment component files the writer creates in the directory.
MaxFiles == 2

\* Number of segments the writer creates in the runs checked for termination.
LiveSegs == 1

Threads == 1..NThreads

Ids == 1..NSegs

\* Schema 0 is Schema::new(), the empty schema; the others are user schemas.
Schemas == 0..NSchemas

NoThread == 0

NoSeg == 0

\* ------------------------------------------------------- catalog value

\* A catalog seeded with Schema::new() whatever schema is passed.
with_schema_DropsSchema(schema) == [segments |-> <<>>, schema |-> 0]

\* IndexMeta::with_schema: an empty segment list and the given schema.
with_schema(schema) == [segments |-> <<>>, schema |-> schema]

\* ---------------------------------------------------------- JSON codec
\* The catalog file is a token sequence
\*   { "segments" : [ id ... ] , "schema" : s }
\* Every token is a pair <<kind, value>>.

TokLBrace == <<"{", 0>>

TokRBrace == <<"}", 0>>

TokLBracket == <<"[", 0>>

TokRBracket == <<"]", 0>>

TokKeySegments == <<"segments", 0>>

TokKeySchema == <<"schema", 0>>

\* SegmentId::uuid_string: the textual form of an identity.
uuid_string(id) == <<"uuid", id>>

TokSchema(s) == <<"schemaval", s>>

\* json::encode of an IndexMeta.
Encode(meta) ==
    <<TokLBrace, TokKeySegments, TokLBracket>>
        \o [i \in 1..Len(meta.segments) |-> uuid_string(meta.segments[i])]
        \o <<TokRBracket, TokKeySchema, TokSchema(meta.schema), TokRBrace>>

DecodeError == [ok |-> FALSE, meta |-> with_schema(0)]

\* json::decode::<IndexMeta>: succeeds only on a complete, well-formed document.
Decode(data) ==
    LET n == Len(data)
        k == n - 7
    IN  IF n < 7 THEN DecodeError
        ELSE IF /\ data[1] = TokLBrace
                /\ data[2] = TokKeySegments
                /\ data[3] = TokLBracket
                /\ \A i \in 1..k : data[3 + i][1] = "uuid"
                /\ data[n - 3] = TokRBracket
                /\ data[n - 2] = TokKeySchema
                /\ data[n - 1][1] = "schemaval"
                /\ data[n] = TokRBrace
             THEN [ok |-> TRUE,
                   meta |-> [segments |-> [i \in 1..k |-> data[3 + i][2]],
                             schema |-> data[n - 1][2]]]
             ELSE DecodeError

\* ------------------------------------------------------------- storage

NoFile == [exists |-> FALSE, data |-> <<>>]

File(data) == [exists |-> TRUE, data |-> data]

\* ---------------------------------------------------- segment addressing

\* SegmentComponent
Components == {"INFO", "POSTINGS", "TERMS", "STORE"}

\* Segment::path_suffix
path_suffix(component) ==
    CASE component = "INFO" -> ".info"
      [] component = "POSTINGS" -> ".idx"
      [] component = "TERMS" -> ".term"
      [] component = "STORE" -> ".store"

\* Segment::relative_path: the identity's string followed by the suffix.
relative_path(id, component) == <<uuid_string(id), path_suffix(component)>>

\* Every path a Segment can address.
Paths == {relative_path(id, c) : id \in Ids, c \in Components}

\* A loop that never reaches the TERMS component.
SyncComponents_PostingsOnly == <<"POSTINGS", "POSTINGS">>

\* A loop that visits the two components in the other order.
SyncComponents_TermsFirst == <<"TERMS", "POSTINGS">>

\* The components Index::sync makes durable, in the order of its loop.
SyncComponents == <<"POSTINGS", "TERMS">>

\* ---------------------------------------------------------------- state

VARIABLES
    handles,        \* the threads that own a clone of the Index handle
    index,          \* per thread: its Index handle, the two Arc allocations it points to
    created,        \* the schema the Index was created with
    metasGuard,     \* per thread: the guard of the metas RwLock it holds between steps
    proc,           \* the process: "up", "down" (killed), "opening", "failed", "aborted"
    crashes,        \* how many times the process was killed
    metas,          \* per Arc allocation: the IndexMeta behind its RwLock
    metasPoisoned,  \* the metas RwLock is poisoned
    dirPoisoned,    \* the directory RwLock is poisoned
    dirWriter,      \* thread holding the directory's write guard inside atomic_write
    metaFile,       \* content of META_FILEPATH in the directory
    tmpFile,        \* atomic_write's temporary file
    files,          \* per segment path: "absent", "written", "synced", "durable"
    pc,             \* per thread: position inside the call it is executing
    call,           \* per thread: the Index/Segment operation it is executing
    seg,            \* per thread: the Segment it holds (NoSeg: none)
    buf,            \* per thread: `encoded` of save_metas / `meta_content` of load_metas
    ret,            \* per thread: what its last call returned
    nextId,         \* identities handed out so far, plus one
    pubState,       \* per identity: progress of publish_segment on it
    syncOk,         \* identities for which sync(segment) returned Ok
    killedSynced,   \* identities synced Ok and not yet in publish_segment at the kill
    loaded,         \* a load_metas has replaced the catalog since creation
    closedMetas,    \* the catalog as it was when the process last went down
    closedClean     \* the process went down quiescent, every publish Ok, catalog saved

vars == <<handles, index, created, metasGuard, proc, crashes, metas,
          metasPoisoned, dirPoisoned, dirWriter, metaFile,
          tmpFile, files, pc, call, seg, buf, ret, nextId, pubState, syncOk,
          killedSynced, loaded, closedMetas, closedClean>>

\* What a call returned: Ok / Err / NotFound / Panic, and the value of a read.
Ret(tag) == [tag |-> tag, segs |-> <<>>, schema |-> 0]

NoRet == Ret("none")

\* Index::from_directory: a fresh catalog and fresh (unpoisoned) locks.
from_directory(schema) == with_schema(schema)

\* The thread that builds the Index: it calls Index::create, and Index::open
\* when the process starts again.
Opener == 1

\* Index::from_directory, lines 104-105: Arc::new for the catalog and for the
\* directory; the handle is the pair of allocations it points to.
ArcNew == [metas |-> 1, directory |-> 1]

\* A clone that copies the catalog into an allocation of its own.
Index_clone_CopiesCatalog(self) == [self EXCEPT !.metas = @ + 1]

\* #[derive(Clone)] on Index: Arc::clone of both fields, the same allocations.
Index_clone(self) == self

\* Index::segment: a Segment is a clone of the handle and the identity.
segment(self, segment_id) == [index |-> Index_clone(self), segment_id |-> segment_id]

\* The handles of a process: the thread that built the Index owns it, every
\* other thread owns a clone.
Handles == [t \in Threads |-> IF t = Opener THEN ArcNew ELSE Index_clone(ArcNew)]

\* The catalog allocations the handles point to, each holding `meta`.
Heap(meta) == [a \in {Handles[t].metas : t \in Threads} |-> meta]

\* The catalog behind a handle: *self.metas.read() / *self.metas.write().
Deref(self) == metas[self.metas]

\* RwLock::write on the catalog: granted when no guard is held on it.
CanWrite(t) ==
    \A u \in Threads : index[u].metas = index[t].metas => metasGuard[u] = "none"

\* RwLock::read on the catalog: granted when no write guard is held on it.
CanRead(t) ==
    \A u \in Threads : index[u].metas = index[t].metas => metasGuard[u] # "write"

\* Index::create(path, schema) on an empty directory; the threads of `owners`
\* each get a clone of the handle.
Created(owners) ==
    /\ handles = owners
    /\ index = Handles
    /\ created \in Schemas \ {0}
    /\ metasGuard = [t \in Threads |-> "none"]
    /\ proc = "up"
    /\ crashes = 0
    /\ metas = Heap(from_directory(created))
    /\ metasPoisoned = FALSE
    /\ dirPoisoned = FALSE
    /\ dirWriter = NoThread
    /\ metaFile = NoFile
    /\ tmpFile = NoFile
    /\ files = [p \in Paths |-> "absent"]
    /\ pc = [t \in Threads |-> "idle"]
    /\ call = [t \in Threads |-> "none"]
    /\ seg = [t \in Threads |-> NoSeg]
    /\ buf = [t \in Threads |-> <<>>]
    /\ ret = [t \in Threads |-> NoRet]
    /\ nextId = 1
    /\ pubState = [id \in Ids |-> "unalloc"]
    /\ syncOk = {}
    /\ killedSynced = {}
    /\ loaded = FALSE
    /\ closedMetas = with_schema(0)
    /\ closedClean = FALSE

\* ------------------------------------------------------- call plumbing

\* The thread is between calls and the process holds an Index.
Idle(t) == t \in handles /\ proc = "up" /\ pc[t] = "idle"

\* The outcome of publish_segment recorded for the identity it was called on.
PubDone(t, outcome) ==
    IF call[t] = "publish_segment"
    THEN [pubState EXCEPT ![seg[t]] = outcome]
    ELSE pubState

\* An open that drops the result of load_metas and always yields the Index.
OpenResult_IgnoresLoad(tag) == "up"

\* Index::open, lines 90-91: try!(index.load_metas()) returns the error of
\* load_metas and yields no Index; Ok(index) otherwise.
OpenResult(tag) == IF tag = "Ok" THEN "up" ELSE "failed"

\* The call of thread t returns r to its caller.
Return(t, r) ==
    /\ pc' = [pc EXCEPT ![t] = "idle"]
    /\ call' = [call EXCEPT ![t] = "none"]
    /\ buf' = [buf EXCEPT ![t] = <<>>]
    /\ ret' = [ret EXCEPT ![t] = r]
    /\ seg' = [seg EXCEPT ![t] = IF call[t] = "publish_segment" THEN NoSeg ELSE @]
    /\ pubState' = PubDone(t, IF r.tag = "Ok" THEN "ok" ELSE "err")
    /\ proc' = IF call[t] = "open"
               THEN OpenResult(r.tag)
               ELSE proc
    /\ metasGuard' = [metasGuard EXCEPT ![t] = "none"]

\* The thread unwinds inside operation op. The cause is "PanicPoisoned"
\* (unwrap() of a poisoned lock's Err), "PanicDecode" (unwrap() of a decode
\* error) or "PanicCallee" (a panic raised inside a callee). open() runs on
\* the thread that starts the process, which then has no Index.
Panic(t, op, cause) ==
    /\ pc' = [pc EXCEPT ![t] = "panicked"]
    /\ call' = [call EXCEPT ![t] = op]
    /\ buf' = [buf EXCEPT ![t] = <<>>]
    /\ ret' = [ret EXCEPT ![t] = Ret(cause)]
    /\ seg' = [seg EXCEPT ![t] = IF op = "publish_segment" THEN NoSeg ELSE @]
    /\ pubState' = IF op = "publish_segment" /\ seg[t] # NoSeg
                   THEN [pubState EXCEPT ![seg[t]] = "panic"]
                   ELSE pubState
    /\ proc' = IF op = "open" THEN "aborted" ELSE proc
    /\ metasGuard' = [metasGuard EXCEPT ![t] = "none"]

\* ------------------------------------------------------------ new_segment

\* SegmentId::new: Uuid::new_v4, an identity no earlier call returned.
SegmentId_new == nextId

\* A new_segment that also enters the fresh identity in the catalog.
new_segment_Registers(t) ==
    /\ Idle(t)
    /\ nextId <= NSegs
    /\ seg' = [seg EXCEPT ![t] = segment(index[t], SegmentId_new).segment_id]
    /\ nextId' = nextId + 1
    /\ pubState' = [pubState EXCEPT ![SegmentId_new] = "new"]
    /\ ret' = [ret EXCEPT ![t] = Ret("Ok")]
    /\ metas' = [metas EXCEPT ![index[t].metas].segments = Append(@, SegmentId_new)]
    /\ UNCHANGED <<killedSynced, handles, index, created, metasGuard, proc,
                   crashes, metasPoisoned, dirPoisoned, dirWriter, metaFile,
                   tmpFile, files, pc, call, buf, syncOk, loaded, closedMetas,
                   closedClean>>

\* Index::new_segment: a Segment of a fresh identity; the catalog is not touched.
new_segment(t) ==
    /\ Idle(t)
    /\ nextId <= NSegs
    /\ seg' = [seg EXCEPT ![t] = segment(index[t], SegmentId_new).segment_id]
    /\ nextId' = nextId + 1
    /\ pubState' = [pubState EXCEPT ![SegmentId_new] = "new"]
    /\ ret' = [ret EXCEPT ![t] = Ret("Ok")]
    /\ UNCHANGED <<killedSynced, handles, index, created, metasGuard, proc,
                   crashes, metas, metasPoisoned, dirPoisoned, dirWriter,
                   metaFile, tmpFile, files, pc, call, buf, syncOk, loaded,
                   closedMetas, closedClean>>

\* -------------------------------------------------------- publish_segment

\* A push that replaces the list instead of extending it (a lost update).
PushSegment_Overwrite(segments, id) == <<id>>

\* A push that inserts at the head of the list.
PushSegment_AtFront(segments, id) == <<id>> \o segments

\* self.metas.write().unwrap().segments.push(segment.segment_id.clone())
PushSegment(segments, id) == Append(segments, id)

\* A write guard bound to a variable that lives to the end of publish_segment.
PushGuardScope_WholeCall == "write"

\* Line 133: the write guard is a temporary of the statement; what the thread
\* holds of the catalog lock once the statement has ended.
PushGuardScope == "none"

\* Index::publish_segment, line 133: the push under the catalog's write guard.
\* The guard is dropped at the end of the statement, before save_metas.
\* A poisoned lock makes unwrap() panic; a panic of the guard's holder inside
\* the update poisons the lock.
publish_segment(t) ==
    /\ Idle(t)
    /\ seg[t] # NoSeg
    /\ pubState[seg[t]] = "new"
    /\ CanWrite(t)
    /\ \/ /\ metasPoisoned
          /\ Panic(t, "publish_segment", "PanicPoisoned")
          /\ UNCHANGED <<metas, metasPoisoned>>
       \/ /\ ~metasPoisoned
          /\ metas' = [metas EXCEPT ![index[t].metas].segments = PushSegment(@, seg[t])]
          /\ metasGuard' = [metasGuard EXCEPT ![t] = PushGuardScope]
          /\ pc' = [pc EXCEPT ![t] = "save_snapshot"]
          /\ call' = [call EXCEPT ![t] = "publish_segment"]
          /\ pubState' = [pubState EXCEPT ![seg[t]] = "inflight"]
          /\ ret' = [ret EXCEPT ![t] = NoRet]
          /\ UNCHANGED <<metasPoisoned, seg, buf, proc>>
       \/ /\ ~metasPoisoned
          /\ metasPoisoned' = TRUE
          /\ Panic(t, "publish_segment", "PanicCallee")
          /\ UNCHANGED metas
    /\ UNCHANGED <<killedSynced, handles, index, created, crashes, dirPoisoned, dirWriter,
                   metaFile, tmpFile, files, nextId, syncOk, loaded,
                   closedMetas, closedClean>>

\* ------------------------------------------------------------- save_metas

\* A read guard bound to a variable that lives to the end of save_metas.
EncodeGuardScope_WholeCall == "read"

\* Lines 185-188: metas_lock lives in the block that computes `encoded`; what
\* the thread holds of the catalog lock once the block has ended.
EncodeGuardScope == "none"

\* Index::save_metas, lines 185-188: encode the catalog under its read guard.
\* Entered from publish_segment, or called directly.
save_metas_encode(t) ==
    /\ \/ pc[t] = "save_snapshot"
       \/ Idle(t)
    /\ CanRead(t)
    /\ LET op == IF pc[t] = "idle" THEN "save_metas" ELSE call[t]
       IN  \/ /\ metasPoisoned
              /\ Panic(t, op, "PanicPoisoned")
           \/ /\ ~metasPoisoned
              /\ buf' = [buf EXCEPT ![t] = Encode(Deref(index[t]))]
              /\ metasGuard' = [metasGuard EXCEPT ![t] = EncodeGuardScope]
              /\ pc' = [pc EXCEPT ![t] = "save_write"]
              /\ call' = [call EXCEPT ![t] = op]
              /\ ret' = [ret EXCEPT ![t] = NoRet]
              /\ UNCHANGED <<seg, pubState, proc>>
    /\ UNCHANGED <<killedSynced, handles, index, created, crashes, metas, metasPoisoned,
                   dirPoisoned, dirWriter, metaFile, tmpFile, files, nextId,
                   syncOk, loaded, closedMetas, closedClean>>

\* Directory::atomic_write, first half: the bytes go to a temporary file.
atomic_write_tmp(bytes) == tmpFile' = File(bytes) /\ UNCHANGED metaFile

\* Directory::atomic_write, second half: the temporary file is renamed over the path.
atomic_write_rename == metaFile' = tmpFile /\ tmpFile' = NoFile

\* A save that writes META_FILEPATH in place: the path holds part of the bytes
\* until the write completes.
save_metas_persist_in_place(bytes) ==
    /\ metaFile' = File(SubSeq(bytes, 1, Len(bytes) - 1))
    /\ tmpFile' = File(bytes)

\* Index::save_metas, line 189: how the encoded catalog reaches META_FILEPATH.
save_metas_persist(bytes) == atomic_write_tmp(bytes)

\* Index::save_metas, line 189: rw_directory() then atomic_write. A poisoned
\* directory lock is returned as an Err (rw_directory, lines 113-119); the
\* storage can fail before anything is written.
save_metas_write(t) ==
    /\ pc[t] = "save_write"
    /\ dirWriter = NoThread
    /\ \/ /\ dirPoisoned
          /\ Return(t, Ret("Err"))
          /\ UNCHANGED <<dirWriter, metaFile, tmpFile>>
       \/ /\ ~dirPoisoned
          /\ save_metas_persist(buf[t])
          /\ dirWriter' = t
          /\ pc' = [pc EXCEPT ![t] = "save_rename"]
          /\ UNCHANGED <<call, buf, ret, seg, pubState, proc, metasGuard>>
       \/ /\ ~dirPoisoned
          /\ Return(t, Ret("Err"))
          /\ UNCHANGED <<dirWriter, metaFile, tmpFile>>
    /\ UNCHANGED <<killedSynced, handles, index, created, crashes, metas, metasPoisoned,
                   dirPoisoned, files, nextId, syncOk, loaded, closedMetas,
                   closedClean>>

\* The end of atomic_write, still under the directory's write guard: the
\* rename succeeds, or fails with an error, or the directory implementation
\* panics and the guard's drop poisons the lock.
save_metas_rename(t) ==
    /\ pc[t] = "save_rename"
    /\ dirWriter = t
    /\ dirWriter' = NoThread
    /\ \/ /\ atomic_write_rename
          /\ Return(t, Ret("Ok"))
          /\ UNCHANGED dirPoisoned
       \/ /\ Return(t, Ret("Err"))
          /\ UNCHANGED <<metaFile, tmpFile, dirPoisoned>>
       \/ /\ dirPoisoned' = TRUE
          /\ Panic(t, call[t], "PanicCallee")
          /\ UNCHANGED <<metaFile, tmpFile>>
    /\ UNCHANGED <<killedSynced, handles, index, created, crashes, metas, metasPoisoned,
                   files, nextId, syncOk, loaded, closedMetas, closedClean>>

\* ------------------------------------------------------------- load_metas

\* Directory::open_read of META_FILEPATH: NotFound when the file is absent.
open_read_meta == IF metaFile.exists THEN "Ok" ELSE "NotFound"

\* Index::load_metas, lines 177-179: read the file under the directory's read
\* guard (an Err of ro_directory or open_read is returned by try!), then
\* json::decode(..).unwrap(), which panics on content that does not decode.
load_metas_read(t) ==
    /\ \/ Idle(t)
       \/ pc[t] = "open_load"
    /\ dirWriter = NoThread
    /\ LET op == IF pc[t] = "idle" THEN "load_metas" ELSE call[t]
       IN  \/ /\ dirPoisoned
              /\ Return(t, Ret("Err"))
           \/ /\ ~dirPoisoned
              /\ open_read_meta = "NotFound"
              /\ Return(t, Ret("NotFound"))
           \/ /\ ~dirPoisoned
              /\ open_read_meta = "Ok"
              /\ ~Decode(metaFile.data).ok
              /\ Panic(t, op, "PanicDecode")
           \/ /\ ~dirPoisoned
              /\ open_read_meta = "Ok"
              /\ Decode(metaFile.data).ok
              /\ buf' = [buf EXCEPT ![t] = metaFile.data]
              /\ pc' = [pc EXCEPT ![t] = "load_install"]
              /\ call' = [call EXCEPT ![t] = op]
              /\ ret' = [ret EXCEPT ![t] = NoRet]
              /\ UNCHANGED <<seg, pubState, proc, metasGuard>>
    /\ UNCHANGED <<killedSynced, handles, index, created, crashes, metas, metasPoisoned,
                   dirPoisoned, dirWriter, metaFile, tmpFile, files, nextId,
                   syncOk, loaded, closedMetas, closedClean>>

\* An install that keeps the identities the catalog held and adds the loaded.
clone_from_Merges(old, loaded_meta) ==
    [segments |-> old.segments \o loaded_meta.segments, schema |-> loaded_meta.schema]

\* self.metas.write().unwrap().clone_from(&loaded_meta)
clone_from(old, loaded_meta) == loaded_meta

\* Index::load_metas, lines 180-181: replace the catalog under its write guard.
load_metas_install(t) ==
    /\ pc[t] = "load_install"
    /\ CanWrite(t)
    /\ \/ /\ metasPoisoned
          /\ Panic(t, call[t], "PanicPoisoned")
          /\ UNCHANGED <<metas, loaded>>
       \/ /\ ~metasPoisoned
          /\ metas' = [metas EXCEPT ![index[t].metas] =
                                       clone_from(@, Decode(buf[t]).meta)]
          /\ loaded' = TRUE
          /\ Return(t, Ret("Ok"))
    /\ UNCHANGED <<killedSynced, handles, index, created, crashes,
                   metasPoisoned, dirPoisoned,
                   dirWriter, metaFile, tmpFile, files, nextId, syncOk,
                   closedMetas, closedClean>>

\* ------------------------------------------------------ schema, segments

\* Index::schema: self.metas.read().unwrap().schema.clone()
schema(t) ==
    /\ Idle(t)
    /\ CanRead(t)
    /\ \/ /\ metasPoisoned
          /\ Panic(t, "schema", "PanicPoisoned")
       \/ /\ ~metasPoisoned
          /\ ret' = [ret EXCEPT ![t] =
                         [Ret("Ok") EXCEPT !.schema = Deref(index[t]).schema]]
          /\ UNCHANGED <<pc, call, buf, seg, pubState, proc, metasGuard>>
    /\ UNCHANGED <<killedSynced, handles, index, created, crashes, metas, metasPoisoned,
                   dirPoisoned, dirWriter, metaFile, tmpFile, files, nextId,
                   syncOk, loaded, closedMetas, closedClean>>

\* Index::segment_ids: a copy of the catalog's list, taken under the read guard.
segment_ids(self) == Deref(self).segments

\* Index::segments: one Segment per identity of segment_ids().
segments(t) ==
    /\ Idle(t)
    /\ CanRead(t)
    /\ \/ /\ metasPoisoned
          /\ Panic(t, "segments", "PanicPoisoned")
       \/ /\ ~metasPoisoned
          /\ ret' = [ret EXCEPT ![t] = [Ret("Ok") EXCEPT !.segs = segment_ids(index[t])]]
          /\ UNCHANGED <<pc, call, buf, seg, pubState, proc, metasGuard>>
    /\ UNCHANGED <<killedSynced, handles, index, created, crashes, metas, metasPoisoned,
                   dirPoisoned, dirWriter, metaFile, tmpFile, files, nextId,
                   syncOk, loaded, closedMetas, closedClean>>

\* Index::segments as a reader uses it: the caller keeps one of the Segments
\* of the returned list.
take_segment(t) ==
    /\ Idle(t)
    /\ CanRead(t)
    /\ ~metasPoisoned
    /\ \E i \in 1..Len(segment_ids(index[t])) :
           seg' = [seg EXCEPT ![t] =
                       segment(index[t], segment_ids(index[t])[i]).segment_id]
    /\ ret' = [ret EXCEPT ![t] = [Ret("Ok") EXCEPT !.segs = segment_ids(index[t])]]
    /\ UNCHANGED <<killedSynced, handles, index, created, metasGuard, proc,
                   crashes, metas, metasPoisoned, dirPoisoned, dirWriter,
                   metaFile, tmpFile, files, pc, call, buf, nextId, pubState,
                   syncOk, loaded, closedMetas, closedClean>>

\* ------------------------------------------------- Segment::open_write/read

\* Directory::open_write: the file is created (the writer writes a segment's
\* component once; segments are immutable).
dir_open_write(path) == [files EXCEPT ![path] = "written"]

\* Segment::open_write: directory.write().unwrap().open_write(&path).
open_write(t, component) ==
    /\ Idle(t)
    /\ seg[t] # NoSeg
    /\ dirWriter = NoThread
    /\ LET path == relative_path(seg[t], component)
       IN  /\ files[path] = "absent"
           /\ Cardinality({p \in Paths : files[p] # "absent"}) < MaxFiles
           /\ \/ /\ dirPoisoned
                 /\ Panic(t, "open_write", "PanicPoisoned")
                 /\ UNCHANGED <<files, dirPoisoned>>
              \/ /\ ~dirPoisoned
                 /\ files' = dir_open_write(path)
                 /\ ret' = [ret EXCEPT ![t] = Ret("Ok")]
                 /\ UNCHANGED <<pc, call, buf, seg, pubState, proc, metasGuard,
                                dirPoisoned>>
              \/ /\ ~dirPoisoned
                 /\ ret' = [ret EXCEPT ![t] = Ret("Err")]
                 /\ UNCHANGED <<pc, call, buf, seg, pubState, proc, metasGuard,
                                dirPoisoned, files>>
    /\ UNCHANGED <<killedSynced, handles, index, created, crashes, metas, metasPoisoned,
                   dirWriter, metaFile, tmpFile, nextId, syncOk, loaded,
                   closedMetas, closedClean>>

\* Directory::open_read of a segment path: NotFound when the file is absent.
dir_open_read(path) == IF files[path] = "absent" THEN "NotFound" ELSE "Ok"

\* Segment::open_read: directory.read().unwrap().open_read(&path).
open_read(t, component) ==
    /\ Idle(t)
    /\ seg[t] # NoSeg
    /\ dirWriter = NoThread
    /\ \/ /\ dirPoisoned
          /\ Panic(t, "open_read", "PanicPoisoned")
       \/ /\ ~dirPoisoned
          /\ ret' = [ret EXCEPT ![t] =
                         Ret(dir_open_read(relative_path(seg[t], component)))]
          /\ UNCHANGED <<pc, call, buf, seg, pubState, proc, metasGuard>>
    /\ UNCHANGED <<killedSynced, handles, index, created, crashes, metas, metasPoisoned,
                   dirPoisoned, dirWriter, metaFile, tmpFile, files, nextId,
                   syncOk, loaded, closedMetas, closedClean>>

\* ------------------------------------------------------------------- sync

\* Directory::sync(path): the file's bytes become durable.
dir_sync(path) ==
    [files EXCEPT ![path] = IF @ = "written" THEN "synced" ELSE @]

\* Directory::sync_directory: the entries of the directory become durable, so
\* the files whose bytes are durable survive a crash.
dir_sync_directory ==
    [p \in Paths |-> IF files[p] = "synced" THEN "durable" ELSE files[p]]

\* Index::sync, lines 139-143: one turn of the loop over POSTINGS and TERMS.
\* try!(self.ro_directory()) then try!(directory.sync(&path)).
sync_component(t) ==
    /\ \/ Idle(t) /\ seg[t] # NoSeg
       \/ pc[t] = "sync_2"
    /\ dirWriter = NoThread
    /\ LET i == IF pc[t] = "idle" THEN 1 ELSE 2
           path == relative_path(seg[t], SyncComponents[i])
       IN  \/ /\ dirPoisoned \/ files[path] = "absent"
              /\ Return(t, Ret("Err"))
              /\ UNCHANGED files
           \/ /\ ~dirPoisoned
              /\ files[path] # "absent"
              /\ files' = dir_sync(path)
              /\ pc' = [pc EXCEPT ![t] = IF i = 1 THEN "sync_2" ELSE "sync_dir"]
              /\ call' = [call EXCEPT ![t] = "sync"]
              /\ ret' = [ret EXCEPT ![t] = NoRet]
              /\ UNCHANGED <<buf, seg, pubState, proc, metasGuard>>
           \/ /\ ~dirPoisoned
              /\ files[path] # "absent"
              /\ Return(t, Ret("Err"))
              /\ UNCHANGED files
    /\ UNCHANGED <<killedSynced, handles, index, created, crashes, metas, metasPoisoned,
                   dirPoisoned, dirWriter, metaFile, tmpFile, nextId, syncOk,
                   loaded, closedMetas, closedClean>>

\* Index::sync, line 144: try!(self.ro_directory()).sync_directory()
sync_directory(t) ==
    /\ pc[t] = "sync_dir"
    /\ dirWriter = NoThread
    /\ \/ /\ dirPoisoned
          /\ Return(t, Ret("Err"))
          /\ UNCHANGED <<files, syncOk>>
       \/ /\ ~dirPoisoned
          /\ files' = dir_sync_directory
          /\ syncOk' = syncOk \cup {seg[t]}
          /\ Return(t, Ret("Ok"))
       \/ /\ ~dirPoisoned
          /\ Return(t, Ret("Err"))
          /\ UNCHANGED <<files, syncOk>>
    /\ UNCHANGED <<killedSynced, handles, index, created, crashes, metas, metasPoisoned,
                   dirPoisoned, dirWriter, metaFile, tmpFile, nextId, loaded,
                   closedMetas, closedClean>>

\* ------------------------------------------------------- kill and reopen

\* The segment files a crash can take away: those not yet durable.
Volatile == {p \in Paths : files[p] \in {"written", "synced"}}

\* The process went down with no call in flight, every publish_segment so far
\* returned Ok, the catalog was never replaced by a load and has been saved.
Quiescent ==
    /\ \A t \in handles : pc[t] = "idle"
    /\ \A id \in Ids : pubState[id] \in {"unalloc", "new", "ok"}
    /\ ~loaded
    /\ metaFile.exists

\* The process is killed: threads, handles' memory and locks are gone; the
\* directory keeps meta.json, a temporary file left by an interrupted
\* atomic_write, and every durable segment file; any other may be lost.
Crash ==
    /\ proc = "up"
    /\ crashes < MaxCrashes
    /\ crashes' = crashes + 1
    /\ proc' = "down"
    /\ closedMetas' = Deref(index[Opener])
    /\ closedClean' = Quiescent
    /\ metas' = Heap(with_schema(0))
    /\ metasGuard' = [t \in Threads |-> "none"]
    /\ metasPoisoned' = FALSE
    /\ dirPoisoned' = FALSE
    /\ dirWriter' = NoThread
    /\ loaded' = FALSE
    /\ \E lost \in SUBSET Volatile :
           files' = [p \in Paths |-> IF p \in lost THEN "absent" ELSE files[p]]
    /\ pc' = [t \in Threads |-> "idle"]
    /\ call' = [t \in Threads |-> "none"]
    /\ seg' = [t \in Threads |-> NoSeg]
    /\ buf' = [t \in Threads |-> <<>>]
    /\ ret' = [t \in Threads |-> NoRet]
    /\ pubState' = [id \in Ids |-> IF pubState[id] = "inflight" THEN "killed"
                                   ELSE pubState[id]]
    /\ killedSynced' = {id \in syncOk : pubState[id] = "new"}
    /\ UNCHANGED <<handles, index, created, metaFile, tmpFile, nextId, syncOk>>

\* Index::open, lines 87-89: MmapDirectory::create (its error is returned by
\* try!), then from_directory with Schema::new(); load_metas follows.
open(t) ==
    /\ t = Opener
    /\ proc = "down"
    /\ \/ /\ proc' = "opening"
          /\ metas' = Heap(from_directory(0))
          /\ pc' = [pc EXCEPT ![t] = "open_load"]
          /\ call' = [call EXCEPT ![t] = "open"]
          /\ UNCHANGED ret
       \/ /\ proc' = "failed"
          /\ ret' = [ret EXCEPT ![t] = Ret("Err")]
          /\ UNCHANGED <<metas, pc, call>>
    /\ UNCHANGED <<killedSynced, handles, index, created, metasGuard, crashes,
                   metasPoisoned, dirPoisoned, dirWriter, metaFile, tmpFile,
                   files, seg, buf, nextId, pubState, syncOk, loaded,
                   closedMetas, closedClean>>

\* Every thread owns a clone of one Index created on an empty directory.
Init == Created(Threads)

\* The catalog protocol: every thread publishes, saves, loads and reads; the
\* process can be killed and the index opened again.
Next ==
    \/ \E t \in Threads :
        \/ new_segment(t)
        \/ publish_segment(t)
        \/ save_metas_encode(t)
        \/ save_metas_write(t)
        \/ save_metas_rename(t)
        \/ load_metas_read(t)
        \/ load_metas_install(t)
        \/ schema(t)
        \/ segments(t)
        \/ open(t)
    \/ Crash

Spec == Init /\ [][Next]_vars

\* The threads only create and publish segments (save_metas runs only as the
\* tail of publish_segment, load_metas only inside Index::open); the process
\* can be killed and the index opened again.
NextPublishers ==
    \/ \E t \in Threads :
        \/ new_segment(t)
        \/ publish_segment(t)
        \/ pc[t] = "save_snapshot" /\ save_metas_encode(t)
        \/ save_metas_write(t)
        \/ save_metas_rename(t)
        \/ pc[t] = "open_load" /\ load_metas_read(t)
        \/ load_metas_install(t)
        \/ open(t)
    \/ Crash

SpecPublishers == Init /\ [][NextPublishers]_vars

\* What a directory may hold at META_FILEPATH before the program attaches to
\* it: nothing, an empty file, a truncated document, foreign content, or the
\* catalog of an empty index.
PreExisting ==
    {NoFile,
     File(<<>>),
     File(<<TokLBrace, TokKeySegments, TokLBracket>>),
     File(<<TokLBrace, TokKeySchema, TokSchema(0), TokKeySegments, TokLBracket,
            TokRBracket, TokRBrace>>),
     File(Encode(with_schema(1)))}

\* The program attaches to a directory that already exists: Index::create
\* builds a fresh catalog over it, or the process starts with Index::open.
InitOpen ==
    /\ handles = {Opener}
    /\ index = Handles
    /\ created \in Schemas \ {0}
    /\ metasGuard = [t \in Threads |-> "none"]
    /\ proc \in {"up", "down"}
    /\ crashes = 0
    /\ metas = Heap(IF proc = "up" THEN from_directory(created) ELSE with_schema(0))
    /\ metasPoisoned = FALSE
    /\ dirPoisoned = FALSE
    /\ dirWriter = NoThread
    /\ metaFile \in PreExisting
    /\ tmpFile = NoFile
    /\ files = [p \in Paths |-> "absent"]
    /\ pc = [t \in Threads |-> "idle"]
    /\ call = [t \in Threads |-> "none"]
    /\ seg = [t \in Threads |-> NoSeg]
    /\ buf = [t \in Threads |-> <<>>]
    /\ ret = [t \in Threads |-> NoRet]
    /\ nextId = 1
    /\ pubState = [id \in Ids |-> "unalloc"]
    /\ syncOk = {}
    /\ killedSynced = {}
    /\ loaded = FALSE
    /\ closedMetas = with_schema(0)
    /\ closedClean = FALSE

SpecOpen == InitOpen /\ [][Next]_vars

\* One writer thread on the durable backend.
InitDurable == Created({Opener})

\* The writer's pipeline on the durable backend: new_segment, the component
\* files, sync, publish_segment (save_metas runs as its tail, load_metas
\* inside Index::open); the process can be killed at any point and the index
\* opened again.
NextDurable ==
    \/ \E t \in Threads :
        \/ new_segment(t)
        \/ \E c \in Components : open_write(t, c)
        \/ \E c \in Components : open_read(t, c)
        \/ sync_component(t)
        \/ sync_directory(t)
        \/ publish_segment(t)
        \/ pc[t] = "save_snapshot" /\ save_metas_encode(t)
        \/ save_metas_write(t)
        \/ save_metas_rename(t)
        \/ pc[t] = "open_load" /\ load_metas_read(t)
        \/ load_metas_install(t)
        \/ open(t)
    \/ Crash

SpecDurable == InitDurable /\ [][NextDurable]_vars

\* A writer's files and a reader's opens: the threads create segments, write
\* and open their component files, publish them, and take Segments from
\* segments().
NextFiles ==
    \E t \in Threads :
        \/ new_segment(t)
        \/ take_segment(t)
        \/ \E c \in Components : open_write(t, c)
        \/ \E c \in Components : open_read(t, c)
        \/ publish_segment(t)
        \/ pc[t] = "save_snapshot" /\ save_metas_encode(t)
        \/ save_metas_write(t)
        \/ save_metas_rename(t)

SpecFiles == Init /\ [][NextFiles]_vars

\* The external writer's calls on one thread: new_segment, the component
\* files, sync, publish_segment (save_metas runs as its tail), and the reads
\* schema and segments; the process is not killed.
NextWriter ==
    \E t \in Threads :
        \/ new_segment(t)
        \/ \E c \in Components : open_write(t, c)
        \/ sync_component(t)
        \/ sync_directory(t)
        \/ publish_segment(t)
        \/ pc[t] = "save_snapshot" /\ save_metas_encode(t)
        \/ save_metas_write(t)
        \/ save_metas_rename(t)
        \/ schema(t)
        \/ segments(t)

SpecWriter == InitDurable /\ [][NextWriter]_vars

\* The thread of the external writer and the thread of a searcher.
Writer == 1

Reader == 2

InitLive == Created({Writer, Reader})

\* A thread starts a call. The writer creates, writes, syncs and publishes
\* segments; the searcher takes Segments from segments() and opens their
\* files; both save and load the catalog and read the schema and the list.
\* The callees terminate: none of them panics.
Calls(t) ==
    \/ t = Writer /\ nextId <= LiveSegs /\ new_segment(t)
    \/ t = Writer /\ \E c \in Components : open_write(t, c)
    \/ t = Writer /\ Idle(t) /\ sync_component(t)
    \/ t = Writer /\ publish_segment(t) /\ ret'[t].tag # "PanicCallee"
    \/ t = Reader /\ take_segment(t)
    \/ t = Reader /\ \E c \in Components : open_read(t, c)
    \/ Idle(t) /\ save_metas_encode(t)
    \/ Idle(t) /\ load_metas_read(t)
    \/ schema(t)
    \/ segments(t)

\* A thread takes the next step of the call it is in: it acquires the guard the
\* step needs and runs the step's (terminating) storage operation.
Continue(t) ==
    \/ pc[t] = "save_snapshot" /\ save_metas_encode(t)
    \/ save_metas_write(t)
    \/ save_metas_rename(t) /\ ret'[t].tag # "PanicCallee"
    \/ load_metas_install(t)
    \/ pc[t] = "sync_2" /\ sync_component(t)
    \/ sync_directory(t)

NextLive == \E t \in Threads : Calls(t) \/ Continue(t)

\* Fair lock scheduling: a thread whose next step is enabled again and again
\* (the guard it waits for is released again and again) takes the step.
SpecLive == InitLive /\ [][NextLive]_vars /\ \A t \in Threads : SF_vars(Continue(t))

\* ================================================================ claims

\* How many times an identity occurs in a list.
Count(id, list) == Cardinality({i \in 1..Len(list) : list[i] = id})

\* The identities of a list.
Range(list) == {list[i] : i \in 1..Len(list)}

\* The identities on which a publish_segment call has returned.
Returned == {id \in Ids : pubState[id] \in {"ok", "err"}}

\* No publish_segment call is in flight, was killed or panicked.
NoPublishPending == \A id \in Ids : pubState[id] \in {"unalloc", "new", "ok", "err"}

\* The catalog of the running process was mutated by publish_segment only.
OnlyPublished == proc = "up" /\ ~loaded

\* The identities segments() lists, through the handle of the first thread.
Listed == segment_ids(index[Opener])

\* C1: when the threads have each published a distinct identity and every
\* call has returned, with no other mutation of the catalog, segments() has
\* exactly one entry per call, pairwise distinct, and holds every identity.
C1_AllPublishedListed ==
    (OnlyPublished /\ NoPublishPending) =>
        /\ Len(Listed) = Cardinality(Returned)
        /\ Range(Listed) = Returned

\* Two publish_segment calls on distinct identities have both returned.
C1_Witness ==
    /\ OnlyPublished
    /\ NoPublishPending
    /\ Cardinality(Returned) >= 2
    /\ \A t \in Threads : pc[t] = "idle"

\* The catalog meta.json holds, when it decodes.
PersistedSegments ==
    IF metaFile.exists /\ Decode(metaFile.data).ok
    THEN Decode(metaFile.data).meta.segments
    ELSE <<>>

\* C2: once every concurrent publish_segment has returned Ok, meta.json
\* contains every published identity.
C2_NoPublishedIdentityDropped ==
    (OnlyPublished /\ \A id \in Ids : pubState[id] \in {"unalloc", "new", "ok"}) =>
        \A id \in Ids : pubState[id] = "ok" => id \in Range(PersistedSegments)

\* publish_segment returns Ok to thread t in this step.
PublishReturnsOk(t) ==
    /\ call[t] = "publish_segment"
    /\ pc[t] = "save_rename"
    /\ pc'[t] = "idle"
    /\ ret'[t].tag = "Ok"

\* C3 (first half): a segment of new_segment() on which publish_segment was
\* not yet called is not in segments().
C3_AbsentBeforePublish ==
    proc = "up" => \A id \in Ids : pubState[id] = "new" => Count(id, Listed) = 0

\* C3 (second half): in the state in which publish_segment(segment) returns
\* Ok, segments() contains the identity exactly once.
C3_PresentOnceAfterPublish ==
    \A t \in Threads : PublishReturnsOk(t) => Count(seg[t], Listed') = 1

\* C3: before publish_segment(segment) the identity is not in segments();
\* immediately after it returns Ok, segments() contains it exactly once.
C3_PublishMakesVisible ==
    [][C3_AbsentBeforePublish' /\ C3_PresentOnceAfterPublish]_vars

\* C4: an identity is in segments() iff a publish of it has completed; when
\* publish_segment returns an error, the identity is not in segments().
C4_ListedIffPublished ==
    OnlyPublished =>
        \A id \in Ids :
            /\ pubState[id] \in {"new", "ok", "err"} =>
                   (Count(id, Listed) > 0 <=> pubState[id] = "ok")
            /\ pubState[id] = "err" => Count(id, Listed) = 0

\* Index::open returns Ok(index) in this step.
OpenReturnsOk == proc = "opening" /\ proc' = "up"

\* C5: an Index whose catalog was saved, with no publish in flight, that is
\* closed and opened again shows the segments() and schema() it had before.
C5_ReopenRoundTrip ==
    [][(OpenReturnsOk /\ closedClean) => Deref(index[Opener])' = closedMetas]_vars

\* A complete catalog document: it decodes, and encodes back to itself.
Whole(data) == Decode(data).ok /\ Encode(Decode(data).meta) = data

\* C6: meta.json is replaced only by atomic_write's rename of a complete
\* encoded catalog; a reader, or an open() after the process was killed
\* (also between the temporary file's write and its rename), finds the whole
\* previous catalog or the whole new one, never a partial one.
C6_CatalogFileOldOrNew ==
    [][/\ metaFile'.exists => Whole(metaFile'.data)
       /\ metaFile' # metaFile =>
              \E t \in Threads :
                  /\ pc[t] = "save_rename"
                  /\ pc'[t] = "idle"
                  /\ Whole(buf[t])
                  /\ metaFile' = File(buf[t])
       /\ proc' = "down" => metaFile' = metaFile]_vars

\* The process was killed between the temporary file's write and its rename
\* in the publish_segment of an identity: the temporary file names it, and
\* meta.json still holds the previous catalog.
C6_Witness ==
    /\ proc = "down"
    /\ metaFile.exists
    /\ tmpFile.exists
    /\ \E id \in Ids :
           /\ pubState[id] = "killed"
           /\ id \in Range(Decode(tmpFile.data).meta.segments)
           /\ id \notin Range(PersistedSegments)

\* The component files Index::sync is about.
SyncedPaths(id) == {relative_path(id, "POSTINGS"), relative_path(id, "TERMS")}

\* C7: the process was killed after sync(segment) returned Ok and before
\* publish_segment(segment) started; after reopening, the segment's synced
\* component files are in the directory and its identity is not in segments().
C7_PrePublishCrashKeepsFiles ==
    (proc = "up" /\ crashes > 0) =>
        \A id \in killedSynced :
            /\ \A p \in SyncedPaths(id) : files[p] # "absent"
            /\ Count(id, Listed) = 0

\* The index was reopened after a kill that found a segment synced and not
\* yet published.
C7_Witness ==
    /\ proc = "up"
    /\ crashes > 0
    /\ killedSynced # {}
    /\ \A t \in Threads : pc[t] = "idle"

\* META_FILEPATH holds content that does not decode as a catalog.
Malformed == metaFile.exists /\ ~Decode(metaFile.data).ok

\* C8: load_metas on a malformed catalog file returns an error: it does not
\* succeed, does not panic, and leaves the in-memory catalog unchanged.
C8_MalformedCatalogIsAnError ==
    [][\A t \in Threads :
           (load_metas_read(t) /\ Malformed) =>
               /\ pc'[t] = "idle"
               /\ ret'[t].tag = "Err"
               /\ metas' = metas]_vars

\* C9: no operation panics on a poisoned catalog or directory lock; the
\* failure to take the guard is returned as an error.
C9_PoisonedGuardIsAnError ==
    \A t \in Threads : ret[t].tag # "PanicPoisoned"

\* C10: open(path) where no catalog file exists returns NotFound and yields
\* no Index.
C10_OpenWithoutCatalogFails ==
    [][(load_metas_read(Opener) /\ call[Opener] = "open" /\ ~metaFile.exists) =>
           /\ proc' = "failed"
           /\ ret'[Opener].tag = "NotFound"
           /\ pc'[Opener] = "idle"]_vars

\* open() has failed with NotFound on a directory on which create() was
\* called and nothing was ever saved.
C10_Witness ==
    /\ proc = "failed"
    /\ crashes > 0
    /\ ~metaFile.exists
    /\ ret[Opener].tag = "NotFound"

\* The component file of the Segment thread t holds was never written.
NeverWritten(t, c) == seg[t] # NoSeg /\ files[relative_path(seg[t], c)] = "absent"

\* C11: Segment::open_read of a component that was never written returns
\* NotFound and does not abort, for every component kind, whether or not the
\* segment's identity is in the catalog.
C11_UnwrittenComponentIsNotFound ==
    [][\A t \in Threads, c \in Components :
           (open_read(t, c) /\ NeverWritten(t, c)) =>
               /\ ret'[t].tag = "NotFound"
               /\ pc'[t] = "idle"]_vars

\* C12: every clone of the Index handle, the one inside a Segment included,
\* points to the same catalog and the same storage: segments() and schema()
\* agree on all clones, and an identity published through one clone is in
\* segments() of every other.
C12_ClonesShareCatalogAndStorage ==
    \A t, u \in Threads :
        /\ segment_ids(index[t]) = segment_ids(index[u])
        /\ Deref(index[t]).schema = Deref(index[u]).schema
        /\ index[t].directory = index[u].directory
        /\ seg[t] # NoSeg => segment(index[t], seg[t]).index = index[u]
        /\ (seg[t] # NoSeg /\ pc[t] = "save_snapshot") =>
               seg[t] \in Range(segment_ids(index[u]))

\* A publish_segment through the first handle has pushed its identity and not
\* yet returned; segments() through another thread's clone lists the identity.
C12_Witness ==
    /\ proc = "up"
    /\ pc[Opener] = "save_snapshot"
    /\ \E u \in Threads \ {Opener} : seg[Opener] \in Range(segment_ids(index[u]))

\* C13: schema() returns the schema the Index was created with, and
\* new_segment, sync and publish_segment leave the catalog's schema as it is.
C13_SchemaIsTheCreatedOne ==
    [][\A t \in Threads :
           /\ (schema(t) /\ ret'[t].tag = "Ok") => ret'[t].schema = created
           /\ Deref(index[t])'.schema = Deref(index[t]).schema]_vars

\* schema() has returned the creation schema after a segment was created,
\* synced and published.
C13_Witness ==
    /\ \E t \in Threads : ret[t].tag = "Ok" /\ ret[t].schema = created
    /\ \E id \in syncOk : pubState[id] = "ok" /\ id \in Range(Listed)

\* C14: new_segment and sync leave the catalog as it is, in memory and in
\* meta.json; a segment that was created, or created and synced, is not in
\* segments(); an identity enters segments() only by publish_segment on it.
C14_OnlyPublishTouchesCatalog ==
    [][/\ \A t \in Threads :
              (new_segment(t) \/ sync_component(t) \/ sync_directory(t)) =>
                  metas' = metas /\ metaFile' = metaFile
       /\ \A id \in Ids :
              /\ pubState'[id] = "new" =>
                     id \notin Range(Listed') \cup Range(PersistedSegments')
              /\ (id \notin Range(Listed) /\ id \in Range(Listed')) =>
                     \E t \in Threads : publish_segment(t) /\ seg[t] = id]_vars

\* A segment was created and synced and is not published, while the catalog
\* already lists another.
C14_Witness ==
    /\ proc = "up"
    /\ Len(Listed) > 0
    /\ \E id \in syncOk : pubState[id] = "new" /\ id \notin Range(Listed)

\* The status of a component file says its bytes were made durable by sync.
Synced(status) == status \in {"synced", "durable"}

\* sync(segment) of thread t returns in this step.
SyncReturns(t) ==
    /\ pc'[t] = "idle"
    /\ \/ pc[t] \in {"sync_2", "sync_dir"}
       \/ pc[t] = "idle" /\ sync_component(t)

\* C15: sync(segment) syncs the POSTINGS path, then the TERMS path, then the
\* directory; sync_directory runs only after both file syncs returned Ok; sync
\* returns Ok only when the three steps did; a failing step is returned as the
\* error and the later steps do not run; INFO and STORE are never synced.
C15_SyncOrder ==
    [][/\ \A p \in Paths :
              (~Synced(files[p]) /\ Synced(files'[p])) =>
                  \E t \in Threads :
                      \/ /\ pc[t] = "idle" /\ pc'[t] = "sync_2"
                         /\ p = relative_path(seg[t], "POSTINGS")
                      \/ /\ pc[t] = "sync_2" /\ pc'[t] = "sync_dir"
                         /\ p = relative_path(seg[t], "TERMS")
       /\ \A t \in Threads :
              /\ pc'[t] = "sync_2" =>
                     /\ pc[t] \in {"idle", "sync_2"}
                     /\ Synced(files'[relative_path(seg'[t], "POSTINGS")])
              /\ pc'[t] = "sync_dir" =>
                     /\ pc[t] \in {"sync_2", "sync_dir"}
                     /\ \A p \in SyncedPaths(seg'[t]) : Synced(files'[p])
              /\ sync_directory(t) => pc[t] = "sync_dir"
              /\ (SyncReturns(t) /\ ret'[t].tag = "Ok") =>
                     /\ pc[t] = "sync_dir"
                     /\ \A p \in SyncedPaths(seg[t]) : files'[p] = "durable"
                     /\ syncOk' = syncOk \cup {seg[t]}
              /\ (SyncReturns(t) /\ ret'[t].tag = "Err") =>
                     files' = files /\ syncOk' = syncOk
       /\ syncOk' # syncOk =>
              \E t \in Threads : SyncReturns(t) /\ ret'[t].tag = "Ok"
       /\ \A id \in Ids, c \in {"INFO", "STORE"} :
              ~Synced(files'[relative_path(id, c)])]_vars

\* sync(segment) has returned Ok: both synced component files are durable.
C15_Witness ==
    \E t \in Threads :
        /\ seg[t] \in syncOk
        /\ pc[t] = "idle"
        /\ ret[t].tag = "Ok"
        /\ \A p \in SyncedPaths(seg[t]) : files[p] = "durable"

\* Thread t is inside save_metas, past the snapshot.
Saving(t) == pc[t] \in {"save_write", "save_rename"}

\* C16: save_metas encodes the catalog under the catalog's read guard alone
\* and releases it; only then it takes the storage's write guard for
\* atomic_write. The bytes written are the encoding of the catalog as it was
\* at the snapshot, and the two guards are never held together.
C16_SnapshotThenWrite ==
    [][\A t \in Threads :
           /\ (save_metas_encode(t) /\ pc'[t] = "save_write") =>
                  /\ buf'[t] = Encode(Deref(index[t]))
                  /\ metasGuard'[t] = "none"
                  /\ dirWriter # t /\ dirWriter' # t
           /\ (pc[t] = "save_write" /\ pc'[t] = "save_rename") =>
                  /\ metasGuard[t] = "none"
                  /\ dirWriter' = t
                  /\ tmpFile' = File(buf[t])
           /\ (pc[t] = "save_rename" /\ metaFile' # metaFile) =>
                  metaFile' = File(buf[t])
           /\ (Saving(t) /\ Saving(t)') => buf'[t] = buf[t]
           /\ dirWriter' = t => metasGuard'[t] = "none"]_vars

\* A save_metas holds the storage's write guard with a snapshot that is no
\* longer the catalog: another publisher has pushed since it was taken.
C16_Witness ==
    \E t \in Threads :
        /\ pc[t] = "save_rename"
        /\ dirWriter = t
        /\ tmpFile = File(buf[t])
        /\ buf[t] # Encode(Deref(index[t]))

\* C17: Published is terminal: an identity that is in segments() is in
\* segments() in every later state of the running process, whatever Index
\* operations the threads interleave.
C17_PublishedIsTerminal ==
    [][(proc = "up" /\ proc' = "up") =>
           \A id \in Ids : id \in Range(Listed) => id \in Range(Listed')]_vars

\* load_metas returns Ok to thread t in this step.
LoadReturnsOk(t) ==
    /\ load_metas_install(t)
    /\ pc'[t] = "idle"
    /\ ret'[t].tag = "Ok"

\* C18: when load_metas returns Ok, the in-memory catalog is exactly the
\* decoded content of meta.json as it was read, segment list and schema,
\* whatever the catalog held before: nothing is merged.
C18_LoadReplacesWholesale ==
    [][\A t \in Threads :
           LoadReturnsOk(t) =>
               /\ Decode(buf[t]).ok
               /\ Deref(index[t])'.segments = Decode(buf[t]).meta.segments
               /\ Deref(index[t])'.schema = Decode(buf[t]).meta.schema]_vars

\* A load_metas has returned Ok on a catalog that held an identity meta.json
\* did not name: the identity is gone from memory.
C18_Witness ==
    /\ proc = "up"
    /\ crashes = 0
    /\ loaded
    /\ \E t \in Threads : pc[t] = "idle" /\ ret[t].tag = "Ok"
    /\ \E id \in Ids : pubState[id] = "err" /\ id \notin Range(Listed)

\* List a is a prefix of list b.
IsPrefix(a, b) == Len(a) <= Len(b) /\ a = SubSeq(b, 1, Len(a))

\* C19: while the catalog is mutated by publish_segment only, under any
\* interleaving of publishers and with failed saves, the segment list stored
\* in meta.json is a prefix of the in-memory segment list.
C19_PersistedIsPrefixOfMemory ==
    (OnlyPublished /\ metaFile.exists) =>
        /\ Decode(metaFile.data).ok
        /\ IsPrefix(Decode(metaFile.data).meta.segments, Listed)

\* Every publish_segment has returned and meta.json names an identity, yet
\* fewer than the in-memory catalog does.
C19_Witness ==
    /\ OnlyPublished
    /\ metaFile.exists
    /\ \A t \in Threads : pc[t] = "idle"
    /\ 0 < Len(PersistedSegments)
    /\ Len(PersistedSegments) < Len(Listed)

\* C20: no thread holds the catalog guard and the storage guard together or
\* waits for a guard while it holds one (between the steps of a call a thread
\* holds a guard only inside atomic_write, the storage's write guard), and
\* under fair lock scheduling every call that was started returns.
C20_EveryCallReturns ==
    /\ [](\A t \in Threads :
              /\ metasGuard[t] = "none"
              /\ dirWriter = t <=> pc[t] = "save_rename")
    /\ \A t \in Threads : (pc[t] # "idle") ~> (pc[t] = "idle")

\* A save_metas waits for the storage's write guard while the other thread
\* holds it inside atomic_write.
C20_Witness ==
    \E t, u \in Threads :
        /\ t # u
        /\ pc[t] = "save_write"
        /\ pc[u] = "save_rename"
        /\ dirWriter = u

====
